---- MODULE Spec2Model ----
(***************************************************************************)
(* Session orchestration of the LiveTalking server (livetalking/           *)
(* app_fixed.py): the session registry `nerfreals`, the set of peer        *)
(* connections `pcs`, the /offer coroutine with its suspension points, the *)
(* connectionstatechange handler, the command endpoints and the video      *)
(* codec preference computation.                                           *)
(*                                                                         *)
(* The control plane is one asyncio event loop: the code between two       *)
(* awaits of a coroutine runs atomically, so every action below is one     *)
(* such segment.  An offer request r owns at most one renderer and one     *)
(* peer connection; both are identified by r.                              *)
(***************************************************************************)
EXTENDS Integers, Sequences, FiniteSets, TLC

\* ---- bounds ----
MaxOffers == 3      \* offer requests per behaviour
MaxIds == 2         \* size of the id range randN draws from
MaxCap == 2         \* largest configured --max_session
MaxCaps == 4        \* longest codec capability list
CmdOffers == 1      \* offer requests in the behaviours of the command endpoints
LiveOffers == 2     \* offer requests in the behaviours with fair handlers, a shutdown or build threads
NegOffers == 1      \* offer requests in the behaviours with the codec block
MaxNegCaps == 1     \* longest capability list of those behaviours
MaxChat == 1        \* chat commands per behaviour
MaxQueue == 2       \* texts a renderer holds at a time

Reqs == 1..MaxOffers
Ids == 1..MaxIds

\* registry value of a pending session (Python None); a built renderer is
\* identified by the request that built it
None == 0

VARIABLES
    max_session,    \* opt.max_session
    nerfreals,      \* dict sessionid -> renderer | None
    pcs,            \* set of peer connections
    opc,            \* position of each offer coroutine
    sessionid,      \* local variable sessionid of each offer coroutine
    resp,           \* response returned by each offer coroutine
    conn,           \* pc.connectionState of each request's peer connection
    hfail,          \* position of the handler invocation for "failed"
    hclosed,        \* position of the handler invocation for "closed"
    tracks,         \* whether player.audio and player.video were added to the pc
    lastcmd,        \* the last command request served and its response
    rx,             \* texts each renderer has received and not yet flushed
    chat,           \* the llm_response jobs handed to the executor
    shut,           \* position of on_shutdown
    closing,        \* the pc.close() calls on_shutdown has gathered
    opt_sessionid,  \* opt.sessionid, the attribute of the shared options object
    bpc,            \* position of the executor thread that runs build_nerfreal
    rsid,           \* opt.sessionid as the constructor of each renderer finds it
    capabilities,   \* RTCRtpSender.getCapabilities("video").codecs
    preferences,    \* local list preferences of the codec block
    videoPrefs,     \* codec preferences held by the video transceiver
    cpc             \* position of the codec block

\* the variables of the command endpoints, of the codec block and of on_shutdown
cmdvars == <<lastcmd, rx, chat>>
codecvars == <<capabilities, preferences, videoPrefs, cpc>>
shutvars == <<shut, closing>>
buildvars == <<opt_sessionid, bpc, rsid>>

vars == <<max_session, nerfreals, pcs, opc, sessionid, resp, conn, hfail, hclosed,
          tracks,
          lastcmd, rx, chat, shut, closing, opt_sessionid, bpc, rsid,
          capabilities, preferences, videoPrefs, cpc>>

\* len(nerfreals)
count == Cardinality(DOMAIN nerfreals)

\* nerfreals[s] = v
DictSet(d, s, v) == [i \in (DOMAIN d) \cup {s} |-> IF i = s THEN v ELSE d[i]]

\* if s in nerfreals: del nerfreals[s]
DictDel(d, s) == [i \in (DOMAIN d) \ {s} |-> d[i]]

\* the empty dict
EmptyDict == [i \in {} |-> None]

\* the llm_response jobs of a behaviour
Chats == 1..MaxChat

\* a job slot not used yet; a job is queued for, then done on, the renderer
\* `to` that human passed to it
NoJob == [st |-> "none", to |-> 0]

\* no command served yet
NoCmd == [op |-> "none", sid |-> 0, code |-> 0, msg |-> "", calls |-> <<>>]

\* the state after main(): empty registry, no connection, no request;
\* --max_session takes any integer, and with 0 every offer is rejected
InitSessions ==
    /\ max_session \in 0..MaxCap
    /\ nerfreals = EmptyDict
    /\ pcs = {}
    /\ opc = [r \in Reqs |-> "idle"]
    /\ sessionid = [r \in Reqs |-> 0]
    /\ resp = [r \in Reqs |-> "none"]
    /\ conn = [r \in Reqs |-> "none"]
    /\ hfail = [r \in Reqs |-> "none"]
    /\ hclosed = [r \in Reqs |-> "none"]
    /\ tracks = [r \in Reqs |-> FALSE]
    /\ lastcmd = NoCmd
    /\ rx = [q \in Reqs |-> 0]
    /\ chat = [t \in Chats |-> NoJob]
    /\ shut = "no"
    /\ closing = {}
    /\ opt_sessionid = 0
    /\ bpc = [r \in Reqs |-> "start"]
    /\ rsid = [r \in Reqs |-> 0]

InitCodec ==
    /\ capabilities = <<>>
    /\ preferences = <<>>
    /\ videoPrefs = <<>>
    /\ cpc = "start"

Init == InitSessions /\ InitCodec

\* randN(6): any value of the range, with no check against the registry
randN == Ids

\* the admission test written with > for >=
FullOffByOne == count > max_session

\* the admission test of offer
Full == count >= max_session

\* offer, from the arrival of a well-formed request body to the first
\* suspension or return: rejected when the registry is full, else a pending
\* entry is written under a random id and the coroutine awaits build_nerfreal
\* in the executor.  Requests are interchangeable, so they are numbered in
\* the order in which they are served.
OfferStart(r) ==
    /\ shut = "no"
    /\ opc[r] = "idle"
    /\ \A q \in Reqs : q < r => opc[q] # "idle"
    /\ IF Full
       THEN /\ opc' = [opc EXCEPT ![r] = "ret"]
            /\ resp' = [resp EXCEPT ![r] = "max"]
            /\ UNCHANGED <<nerfreals, sessionid>>
       ELSE \E s \in randN :
            /\ sessionid' = [sessionid EXCEPT ![r] = s]
            /\ nerfreals' = DictSet(nerfreals, s, None)
            /\ opc' = [opc EXCEPT ![r] = "build"]
            /\ UNCHANGED resp
    /\ UNCHANGED <<max_session, pcs, conn, hfail, hclosed, tracks>>
    /\ UNCHANGED <<cmdvars, codecvars, shutvars, buildvars>>

\* build_nerfreal raised and the exception left offer unanswered
OfferBuildFailUnanswered(r) ==
    /\ opc[r] = "build"
    /\ opc' = [opc EXCEPT ![r] = "ret"]
    /\ UNCHANGED resp
    /\ UNCHANGED <<max_session, nerfreals, pcs, sessionid, conn, hfail, hclosed, tracks>>
    /\ UNCHANGED <<cmdvars, codecvars, shutvars, buildvars>>

\* build_nerfreal raised (unknown model, constructor failure): the except
\* clause of offer returns the failure response
OfferBuildFail(r) ==
    /\ opc[r] = "build"
    /\ opc' = [opc EXCEPT ![r] = "ret"]
    /\ resp' = [resp EXCEPT ![r] = "err"]
    /\ UNCHANGED <<max_session, nerfreals, pcs, sessionid, conn, hfail, hclosed, tracks>>
    /\ UNCHANGED <<cmdvars, codecvars, shutvars, buildvars>>

\* the track setup whose except clause does not re-raise
OfferBuiltSwallowsTrackError(r, added) ==
    /\ opc[r] = "build"
    /\ nerfreals' = DictSet(nerfreals, sessionid[r], r)
    /\ pcs' = pcs \cup {r}
    /\ conn' = [conn EXCEPT ![r] = "new"]
    /\ tracks' = [tracks EXCEPT ![r] = added]
    /\ opc' = [opc EXCEPT ![r] = "remote"]
    /\ UNCHANGED resp
    /\ UNCHANGED <<max_session, sessionid, hfail, hclosed>>
    /\ UNCHANGED <<cmdvars, codecvars, shutvars, buildvars>>

\* build_nerfreal returned: the renderer is stored, the peer connection is
\* created, added to pcs and given its handler and the tracks are added; then
\* the coroutine awaits setRemoteDescription.  added = FALSE: HumanPlayer or
\* addTrack raised, which ends the request with the failure response.  The
\* codec block that runs in between touches only the transceiver of the new
\* connection and swallows its exceptions; it is CodecBlock below.
OfferBuilt(r, added) ==
    /\ opc[r] = "build"
    /\ nerfreals' = DictSet(nerfreals, sessionid[r], r)
    /\ pcs' = pcs \cup {r}
    /\ conn' = [conn EXCEPT ![r] = "new"]
    /\ tracks' = [tracks EXCEPT ![r] = added]
    /\ IF added
       THEN /\ opc' = [opc EXCEPT ![r] = "remote"]
            /\ UNCHANGED resp
       ELSE /\ opc' = [opc EXCEPT ![r] = "ret"]
            /\ resp' = [resp EXCEPT ![r] = "err"]
    /\ UNCHANGED <<max_session, sessionid, hfail, hclosed>>
    /\ UNCHANGED <<cmdvars, codecvars, shutvars, buildvars>>

\* the next handshake await after position p
NextAwait(p) ==
    CASE p = "remote" -> "answer"
      [] p = "answer" -> "local"
      [] p = "local" -> "ret"

\* one of setRemoteDescription, createAnswer, setLocalDescription completed
\* (ok) or raised; after the last one the success response is returned
OfferHandshake(r, ok) ==
    /\ opc[r] \in {"remote", "answer", "local"}
    /\ IF ok
       THEN /\ opc' = [opc EXCEPT ![r] = NextAwait(opc[r])]
            /\ resp' = [resp EXCEPT ![r] = IF opc[r] = "local" THEN "ok" ELSE @]
       ELSE /\ opc' = [opc EXCEPT ![r] = "ret"]
            /\ resp' = [resp EXCEPT ![r] = "err"]
    /\ UNCHANGED <<max_session, nerfreals, pcs, sessionid, conn, hfail, hclosed, tracks>>
    /\ UNCHANGED <<cmdvars, codecvars, shutvars, buildvars>>

\* a peer connection that exists and has not reached a terminal state
Live(r) == conn[r] \in {"new", "connected"}

\* the transport reports "connected": the handler only logs.  The transport
\* starts from setLocalDescription, so the report comes while the offer
\* awaits that call or after it has returned
ConnConnected(r) ==
    /\ conn[r] = "new"
    /\ opc[r] = "local" \/ resp[r] = "ok"
    /\ conn' = [conn EXCEPT ![r] = "connected"]
    /\ UNCHANGED <<max_session, nerfreals, pcs, opc, sessionid, resp, hfail, hclosed, tracks>>
    /\ UNCHANGED <<cmdvars, codecvars, shutvars, buildvars>>

\* a cleanup that forgets the registry entry
CleanupKeepsEntry(r) ==
    /\ pcs' = pcs \ {r}
    /\ nerfreals' = nerfreals

\* the terminal branch without pcs.discard(pc)
CleanupKeepsConnection(r) ==
    /\ pcs' = pcs
    /\ nerfreals' = DictDel(nerfreals, sessionid[r])

\* the body shared by both terminal branches of on_connectionstatechange
Cleanup(r) ==
    /\ pcs' = pcs \ {r}
    /\ nerfreals' = DictDel(nerfreals, sessionid[r])

\* the transport reports "failed": the handler calls pc.close() and is
\* suspended in it
ConnFailed(r) ==
    /\ Live(r)
    /\ conn' = [conn EXCEPT ![r] = "failed"]
    /\ hfail' = [hfail EXCEPT ![r] = "closing"]
    /\ UNCHANGED <<max_session, nerfreals, pcs, opc, sessionid, resp, hclosed, tracks>>
    /\ UNCHANGED <<cmdvars, codecvars, shutvars, buildvars>>

\* pc.close() called by the failed handler closes the connection, which
\* reports "closed": a second handler invocation is scheduled.  It and the
\* resumption of the failed handler run in either order, with other
\* coroutines in between.
PcClose(r) ==
    /\ hfail[r] = "closing"
    /\ conn[r] = "failed"
    /\ conn' = [conn EXCEPT ![r] = "closed"]
    /\ hclosed' = [hclosed EXCEPT ![r] = "pending"]
    /\ UNCHANGED <<max_session, nerfreals, pcs, opc, sessionid, resp, hfail, tracks>>
    /\ UNCHANGED <<cmdvars, codecvars, shutvars, buildvars>>

\* the failed handler resumes after pc.close()
FailedResume(r) ==
    /\ hfail[r] = "closing"
    /\ conn[r] = "closed"
    /\ Cleanup(r)
    /\ hfail' = [hfail EXCEPT ![r] = "done"]
    /\ UNCHANGED <<max_session, opc, sessionid, resp, conn, hclosed, tracks>>
    /\ UNCHANGED <<cmdvars, codecvars, shutvars, buildvars>>

\* the transport reports "closed" on a live connection
ConnClosed(r) ==
    /\ Live(r)
    /\ conn' = [conn EXCEPT ![r] = "closed"]
    /\ Cleanup(r)
    /\ hclosed' = [hclosed EXCEPT ![r] = "done"]
    /\ UNCHANGED <<max_session, opc, sessionid, resp, hfail, tracks>>
    /\ UNCHANGED <<cmdvars, codecvars, shutvars, buildvars>>

\* the handler invocation scheduled by PcClose runs its closed branch
ClosedHandler(r) ==
    /\ hclosed[r] = "pending"
    /\ Cleanup(r)
    /\ hclosed' = [hclosed EXCEPT ![r] = "done"]
    /\ UNCHANGED <<max_session, opc, sessionid, resp, conn, hfail, tracks>>
    /\ UNCHANGED <<cmdvars, codecvars, shutvars, buildvars>>

\* the variables of the session lifecycle
sessvars == <<max_session, nerfreals, pcs, opc, sessionid, resp, conn, hfail, hclosed,
              tracks>>

\* the test of the command endpoints: the id is registered and its renderer
\* is not None
Attached(s) == s \in DOMAIN nerfreals /\ nerfreals[s] # None

\* the response {"code": c, "msg": m} of a command endpoint, with the renderer
\* methods it invoked
CmdResponse(op, s, c, m, calls) ==
    [op |-> op, sid |-> s, code |-> c, msg |-> m, calls |-> calls]

\* the jobs queued for renderer q
Queued(q) == {t \in Chats : chat[t].st = "queued" /\ chat[t].to = q}

\* renderer q can take one more text, also once every job queued for it has
\* delivered
Room(q, n) == n + Cardinality(Queued(q)) < MaxQueue

\* what a renderer that holds n texts holds after flush_talk: the queued
\* output is cancelled, and nothing happens when nothing is queued
flush_talk(n) == 0

\* human with put_msg_txt called before flush_talk
humanFlushesLast(s, type, interrupt) ==
    /\ lastcmd' =
        IF ~Attached(s)
        THEN CmdResponse("human", s, -1, "session not found", <<>>)
        ELSE CmdResponse("human", s, 0, "ok",
                 (CASE type = "echo" -> <<"put_msg_txt">>
                    [] type = "chat" -> <<"llm_response">>
                    [] OTHER -> <<>>) \o
                 (IF interrupt THEN <<"flush_talk">> ELSE <<>>))
    /\ IF ~Attached(s)
       THEN UNCHANGED <<rx, chat>>
       ELSE LET q == nerfreals[s]
            IN  CASE type = "echo" ->
                       /\ Room(q, rx[q])
                       /\ rx' = [rx EXCEPT ![q] = IF interrupt
                                                  THEN flush_talk(rx[q] + 1)
                                                  ELSE rx[q] + 1]
                       /\ UNCHANGED chat
                  [] type = "chat" ->
                       /\ Room(q, rx[q])
                       /\ rx' = [rx EXCEPT ![q] = IF interrupt
                                                  THEN flush_talk(rx[q])
                                                  ELSE rx[q]]
                       /\ \E t \in Chats :
                            /\ chat[t].st = "none"
                            /\ \A u \in Chats : u < t => chat[u].st # "none"
                            /\ chat' = [chat EXCEPT ![t] = [st |-> "queued", to |-> q]]
                  [] OTHER ->
                       /\ rx' = [rx EXCEPT ![q] = IF interrupt
                                                  THEN flush_talk(rx[q])
                                                  ELSE rx[q]]
                       /\ UNCHANGED chat
    /\ UNCHANGED <<sessvars, codecvars, shutvars, buildvars>>

\* human: session not found, else flush_talk on interrupt, then put_msg_txt
\* (echo) or the responder handed to the executor with the renderer (chat)
human(s, type, interrupt) ==
    /\ lastcmd' =
        IF ~Attached(s)
        THEN CmdResponse("human", s, -1, "session not found", <<>>)
        ELSE CmdResponse("human", s, 0, "ok",
                 (IF interrupt THEN <<"flush_talk">> ELSE <<>>) \o
                 (CASE type = "echo" -> <<"put_msg_txt">>
                    [] type = "chat" -> <<"llm_response">>
                    [] OTHER -> <<>>))
    /\ IF ~Attached(s)
       THEN UNCHANGED <<rx, chat>>
       ELSE LET q == nerfreals[s]
                n == IF interrupt THEN flush_talk(rx[q]) ELSE rx[q]
            IN  CASE type = "echo" ->
                       /\ Room(q, n)
                       /\ rx' = [rx EXCEPT ![q] = n + 1]
                       /\ UNCHANGED chat
                  [] type = "chat" ->
                       /\ Room(q, n)
                       /\ rx' = [rx EXCEPT ![q] = n]
                       /\ \E t \in Chats :
                            /\ chat[t].st = "none"
                            /\ \A u \in Chats : u < t => chat[u].st # "none"
                            /\ chat' = [chat EXCEPT ![t] = [st |-> "queued", to |-> q]]
                  [] OTHER ->
                       /\ rx' = [rx EXCEPT ![q] = n]
                       /\ UNCHANGED chat
    /\ UNCHANGED <<sessvars, codecvars, shutvars, buildvars>>

\* llm_response that returns without put_msg_txt
llm_responseDropsResult(t) ==
    /\ chat[t].st = "queued"
    /\ chat' = [chat EXCEPT ![t].st = "done"]
    /\ UNCHANGED rx
    /\ UNCHANGED lastcmd
    /\ UNCHANGED <<sessvars, codecvars, shutvars, buildvars>>

\* llm_response, run by an executor thread: put_msg_txt on the renderer it
\* was given
llm_response(t) ==
    /\ chat[t].st = "queued"
    /\ chat' = [chat EXCEPT ![t].st = "done"]
    /\ rx' = [rx EXCEPT ![chat[t].to] = @ + 1]
    /\ UNCHANGED lastcmd
    /\ UNCHANGED <<sessvars, codecvars, shutvars, buildvars>>

\* interrupt_talk without the test for a renderer that is still None
interrupt_talkAnyEntry(s) ==
    /\ lastcmd' = CmdResponse("interrupt_talk", s, 0, "ok",
                       IF s \in DOMAIN nerfreals THEN <<"flush_talk">> ELSE <<>>)
    /\ rx' = IF Attached(s)
             THEN [rx EXCEPT ![nerfreals[s]] = flush_talk(rx[nerfreals[s]])]
             ELSE rx
    /\ UNCHANGED chat
    /\ UNCHANGED <<sessvars, codecvars, shutvars, buildvars>>

\* interrupt_talk: flush_talk when the session is attached; "ok" either way
interrupt_talk(s) ==
    /\ lastcmd' = CmdResponse("interrupt_talk", s, 0, "ok",
                       IF Attached(s) THEN <<"flush_talk">> ELSE <<>>)
    /\ rx' = IF Attached(s)
             THEN [rx EXCEPT ![nerfreals[s]] = flush_talk(rx[nerfreals[s]])]
             ELSE rx
    /\ UNCHANGED chat
    /\ UNCHANGED <<sessvars, codecvars, shutvars, buildvars>>

\* humanaudio that detaches the renderer of the session it serves
humanaudioDetaches(s, file) ==
    /\ lastcmd' =
        IF ~Attached(s)
        THEN CmdResponse("humanaudio", s, -1, "session not found", <<>>)
        ELSE CmdResponse("humanaudio", s, 0, "ok",
                 IF file THEN <<"put_audio_file">> ELSE <<>>)
    /\ nerfreals' = IF Attached(s) THEN DictSet(nerfreals, s, None) ELSE nerfreals
    /\ UNCHANGED <<rx, chat>>
    /\ UNCHANGED <<max_session, pcs, opc, sessionid, resp, conn, hfail, hclosed, tracks>>
    /\ UNCHANGED <<codecvars, shutvars, buildvars>>

\* humanaudio: session not found, else put_audio_file when a file was sent
humanaudio(s, file) ==
    /\ lastcmd' =
        IF ~Attached(s)
        THEN CmdResponse("humanaudio", s, -1, "session not found", <<>>)
        ELSE CmdResponse("humanaudio", s, 0, "ok",
                 IF file THEN <<"put_audio_file">> ELSE <<>>)
    /\ UNCHANGED <<rx, chat>>
    /\ UNCHANGED <<sessvars, codecvars, shutvars, buildvars>>

\* set_audiotype: set_curr_state when the session is attached; "ok" either way
set_audiotype(s) ==
    /\ lastcmd' = CmdResponse("set_audiotype", s, 0, "ok",
                       IF Attached(s) THEN <<"set_curr_state">> ELSE <<>>)
    /\ UNCHANGED <<rx, chat>>
    /\ UNCHANGED <<sessvars, codecvars, shutvars, buildvars>>

\* the session lifecycle: offers, transport events and handler invocations
Sessions(R) ==
    \/ \E r \in R : OfferStart(r)
    \/ \E r \in R : OfferBuildFail(r)
    \/ \E r \in R, t \in BOOLEAN : OfferBuilt(r, t)
    \/ \E r \in R, ok \in BOOLEAN : OfferHandshake(r, ok)
    \/ \E r \in R : ConnConnected(r)
    \/ \E r \in R : ConnFailed(r)
    \/ \E r \in R : PcClose(r)
    \/ \E r \in R : FailedResume(r)
    \/ \E r \in R : ConnClosed(r)
    \/ \E r \in R : ClosedHandler(r)

Next == Sessions(Reqs)

Spec == Init /\ [][Next]_vars

\* on_shutdown starts: the server has stopped taking requests; one
\* pc.close() per member of pcs is gathered
on_shutdown ==
    /\ shut = "no"
    /\ shut' = "closing"
    /\ closing' = pcs
    /\ UNCHANGED <<sessvars, cmdvars, codecvars, buildvars>>

\* one of the gathered pc.close() calls: a connection that is not closed
\* yet becomes "closed", which schedules its handler
ShutClose(r) ==
    /\ shut = "closing"
    /\ r \in closing
    /\ closing' = closing \ {r}
    /\ IF conn[r] = "closed"
       THEN UNCHANGED <<conn, hclosed>>
       ELSE /\ conn' = [conn EXCEPT ![r] = "closed"]
            /\ hclosed' = [hclosed EXCEPT ![r] = "pending"]
    /\ UNCHANGED <<max_session, nerfreals, pcs, opc, sessionid, resp, hfail, shut, tracks>>
    /\ UNCHANGED <<cmdvars, codecvars, buildvars>>

\* the gather has returned: pcs.clear()
ShutDone ==
    /\ shut = "closing"
    /\ closing = {}
    /\ pcs' = {}
    /\ shut' = "done"
    /\ UNCHANGED <<max_session, nerfreals, opc, sessionid, resp, conn, hfail, hclosed, closing, tracks>>
    /\ UNCHANGED <<cmdvars, codecvars, buildvars>>

\* the session lifecycle with the shutdown of the server
NextShut ==
    \/ Sessions(1..LiveOffers)
    \/ on_shutdown
    \/ \E r \in Reqs : ShutClose(r)
    \/ ShutDone

SpecShut == Init /\ [][NextShut]_vars

\* build_nerfreal in its executor thread: opt.sessionid = sessionid
BuildWrite(r) ==
    /\ opc[r] = "build"
    /\ bpc[r] = "start"
    /\ opt_sessionid' = sessionid[r]
    /\ bpc' = [bpc EXCEPT ![r] = "written"]
    /\ UNCHANGED rsid
    /\ UNCHANGED <<sessvars, cmdvars, codecvars, shutvars>>

\* build_nerfreal in its executor thread: the renderer is constructed from
\* the shared opt and takes the opt.sessionid it finds there
BuildConstruct(r) ==
    /\ bpc[r] = "written"
    /\ rsid' = [rsid EXCEPT ![r] = opt_sessionid]
    /\ bpc' = [bpc EXCEPT ![r] = "done"]
    /\ UNCHANGED opt_sessionid
    /\ UNCHANGED <<sessvars, cmdvars, codecvars, shutvars>>

\* the await of run_in_executor ends once the thread has returned or raised
OfferBuiltThread(r, added) == bpc[r] = "done" /\ OfferBuilt(r, added)

OfferBuildFailThread(r) == bpc[r] = "written" /\ OfferBuildFail(r)

\* the session lifecycle with the steps of the build threads
NextBuild ==
    \/ \E r \in 1..LiveOffers : OfferStart(r)
    \/ \E r \in 1..LiveOffers : BuildWrite(r)
    \/ \E r \in 1..LiveOffers : BuildConstruct(r)
    \/ \E r \in 1..LiveOffers : OfferBuildFailThread(r)
    \/ \E r \in 1..LiveOffers, a \in BOOLEAN : OfferBuiltThread(r, a)
    \/ \E r \in 1..LiveOffers, ok \in BOOLEAN : OfferHandshake(r, ok)
    \/ \E r \in 1..LiveOffers : ConnConnected(r)
    \/ \E r \in 1..LiveOffers : ConnFailed(r)
    \/ \E r \in 1..LiveOffers : PcClose(r)
    \/ \E r \in 1..LiveOffers : FailedResume(r)
    \/ \E r \in 1..LiveOffers : ConnClosed(r)
    \/ \E r \in 1..LiveOffers : ClosedHandler(r)

SpecBuild == Init /\ [][NextBuild]_vars

\* the event loop resumes every handler that is ready: pc.close() completes,
\* the failed handler runs on after it, and the closed handler that close()
\* scheduled runs
HandlersRun(R) ==
    \A r \in R : /\ WF_vars(PcClose(r))
                 /\ WF_vars(FailedResume(r))
                 /\ WF_vars(ClosedHandler(r))

NextLive == Sessions(1..LiveOffers)

SpecLive == Init /\ [][NextLive]_vars /\ HandlersRun(1..LiveOffers)

\* health: status "healthy" and the number of registry entries
health ==
    /\ lastcmd' = [op |-> "health", sid |-> 0, code |-> 0, msg |-> "healthy",
                   calls |-> <<>>, sessions |-> count]
    /\ UNCHANGED <<rx, chat>>
    /\ UNCHANGED <<sessvars, codecvars, shutvars, buildvars>>

\* the command endpoints, served while at most CmdOffers offers come and go
Types == {"echo", "chat", "other"}

Commands ==
    \/ \E s \in Ids, t \in Types, i \in BOOLEAN : human(s, t, i)
    \/ \E s \in Ids : interrupt_talk(s)
    \/ \E s \in Ids, f \in BOOLEAN : humanaudio(s, f)
    \/ \E s \in Ids : set_audiotype(s)
    \/ \E t \in Chats : llm_response(t)
    \/ health

NextCmd == Sessions(1..CmdOffers) \/ Commands

SpecCmd == Init /\ [][NextCmd]_vars

\* the executor runs every job it was handed
ExecutorRuns == \A t \in Chats : WF_vars(llm_response(t))

SpecChat == Init /\ [][NextCmd]_vars /\ ExecutorRuns

\* ---- the video codec preference block of offer ----
Mimes == {"video/H264", "video/VP8", "video/rtx", "video/VP9"}

\* a codec capability: its mimeType and what else tells two entries of one
\* family apart (clock rate, parameters)
Codecs == [mimeType : Mimes, variant : {"a", "b"}]

\* the capability lists of at most MaxCaps entries
CapLists == UNION {[1..n -> Codecs] : n \in 0..MaxCaps}

\* one loop `for codec in capabilities.codecs: if codec.mimeType == m:
\* preferences.append(codec)`, from position i on
RECURSIVE Scan(_, _, _, _)
Scan(codecs, m, i, prefs) ==
    IF i > Len(codecs) THEN prefs
    ELSE Scan(codecs, m, i + 1,
              IF codecs[i].mimeType = m THEN Append(prefs, codecs[i]) ELSE prefs)

\* the loops with VP8 scanned before H264
PreferencesVP8First(codecs) ==
    Scan(codecs, "video/rtx", 1,
         Scan(codecs, "video/H264", 1,
              Scan(codecs, "video/VP8", 1, <<>>)))

\* the three loops in turn: H264, then VP8, then rtx
Preferences(codecs) ==
    Scan(codecs, "video/rtx", 1,
         Scan(codecs, "video/VP8", 1,
              Scan(codecs, "video/H264", 1, <<>>)))

\* the codec block: nothing is done for an empty capability list; a
\* non-empty preference list is given to the video transceiver, whose
\* setCodecPreferences may raise (ok = FALSE), which is logged
CodecBlock(ok) ==
    /\ cpc = "start"
    /\ cpc' = "done"
    /\ IF capabilities # <<>>
       THEN /\ preferences' = Preferences(capabilities)
            /\ videoPrefs' = IF preferences' # <<>> /\ ok
                             THEN preferences' ELSE videoPrefs
       ELSE UNCHANGED <<preferences, videoPrefs>>
    /\ UNCHANGED capabilities
    /\ UNCHANGED <<sessvars, cmdvars, shutvars, buildvars>>

InitCaps ==
    /\ InitSessions
    /\ capabilities \in CapLists
    /\ preferences = <<>>
    /\ videoPrefs = <<>>
    /\ cpc = "start"

NextCodec == \E ok \in BOOLEAN : CodecBlock(ok)

SpecCodec == InitCaps /\ [][NextCodec]_vars

\* how the codec block of an offer ends: the capability query raised
\* (query = FALSE), the list was empty, no codec of the three families was
\* listed, setCodecPreferences took the list (ok) or raised
CodecOutcome(query, ok) ==
    IF ~query THEN "query_raised"
    ELSE IF capabilities = <<>> THEN "empty"
    ELSE IF Preferences(capabilities) = <<>> THEN "no_preference"
    ELSE IF ok THEN "set" ELSE "set_raised"

\* the except clause of the codec block raising again
CodecExceptRaisesAgain == TRUE

\* the except clause of the codec block logs a warning and goes on
CodecExceptReraises == FALSE

\* OfferBuilt with the codec block that runs between the track setup and
\* the await of setRemoteDescription
OfferBuiltCodec(r, added, query, ok) ==
    LET outcome == CodecOutcome(query, ok)
        raised == outcome \in {"query_raised", "set_raised"}
        goes_on == added /\ ~(raised /\ CodecExceptReraises)
    IN  /\ opc[r] = "build"
        /\ nerfreals' = DictSet(nerfreals, sessionid[r], r)
        /\ pcs' = pcs \cup {r}
        /\ conn' = [conn EXCEPT ![r] = "new"]
        /\ tracks' = [tracks EXCEPT ![r] = added]
        /\ IF added
           THEN /\ cpc' = outcome
                /\ preferences' = IF query /\ capabilities # <<>>
                                  THEN Preferences(capabilities) ELSE preferences
                /\ videoPrefs' = IF outcome = "set" THEN preferences' ELSE videoPrefs
           ELSE UNCHANGED <<preferences, videoPrefs, cpc>>
        /\ IF goes_on
           THEN /\ opc' = [opc EXCEPT ![r] = "remote"]
                /\ UNCHANGED resp
           ELSE /\ opc' = [opc EXCEPT ![r] = "ret"]
                /\ resp' = [resp EXCEPT ![r] = "err"]
        /\ UNCHANGED <<max_session, sessionid, hfail, hclosed, capabilities>>
        /\ UNCHANGED <<cmdvars, shutvars, buildvars>>

\* the capability lists of at most MaxNegCaps entries
NegCapLists == UNION {[1..n -> Codecs] : n \in 0..MaxNegCaps}

InitNeg ==
    /\ InitSessions
    /\ capabilities \in NegCapLists
    /\ preferences = <<>>
    /\ videoPrefs = <<>>
    /\ cpc = "start"

\* the session lifecycle with the codec block in the offer
NextNeg ==
    \/ \E r \in 1..NegOffers : OfferStart(r)
    \/ \E r \in 1..NegOffers : OfferBuildFail(r)
    \/ \E r \in 1..NegOffers, a, q, ok \in BOOLEAN : OfferBuiltCodec(r, a, q, ok)
    \/ \E r \in 1..NegOffers, ok \in BOOLEAN : OfferHandshake(r, ok)
    \/ \E r \in 1..NegOffers : ConnConnected(r)
    \/ \E r \in 1..NegOffers : ConnFailed(r)
    \/ \E r \in 1..NegOffers : PcClose(r)
    \/ \E r \in 1..NegOffers : FailedResume(r)
    \/ \E r \in 1..NegOffers : ConnClosed(r)
    \/ \E r \in 1..NegOffers : ClosedHandler(r)

SpecNeg == InitNeg /\ [][NextNeg]_vars

\* ---- steps the properties speak about ----

\* request r is admitted in this step
Admitted(r) == opc[r] = "idle" /\ opc'[r] = "build"

\* request r is rejected in this step
Rejected(r) == opc[r] = "idle" /\ opc'[r] = "ret" /\ resp'[r] = "max"

\* the renderer construction of request r ends in this step
BuildEnds(r) == opc[r] = "build" /\ opc'[r] # "build"

\* the renderer construction of request r fails in this step
BuildFails(r) == BuildEnds(r) /\ conn'[r] = "none"

\* a terminal branch of the handler of r's connection runs its cleanup in
\* this step
CleanupStep(r) ==
    \/ hfail[r] = "closing" /\ hfail'[r] = "done"
    \/ hclosed[r] # "done" /\ hclosed'[r] = "done"

\* ... and it is the second one for that connection
SecondCleanup(r) ==
    \/ hfail[r] = "closing" /\ hfail'[r] = "done" /\ hclosed[r] = "done"
    \/ hclosed[r] = "pending" /\ hclosed'[r] = "done" /\ hfail[r] = "done"

\* a command is served in this step
CommandStep == lastcmd' # lastcmd /\ lastcmd'.op # "health"

\* ---- properties ----

\* C1: in every reachable state the registry holds at most max_session
\* entries, pending ones included.
C1_CountWithinMax == count <= max_session

\* C2: when the construction of a renderer ends and the session's id is no
\* longer in the registry, the id is still absent afterwards (the renderer is
\* not attached).
C2_RemovedSessionNotAttached ==
    [][\A r \in Reqs :
        BuildEnds(r) /\ sessionid[r] \notin DOMAIN nerfreals
            => sessionid[r] \notin DOMAIN nerfreals']_vars

\* C3: the second cleanup run for one connection changes neither the registry
\* nor the set of connections.
C3_SecondCleanupNoOp ==
    [][\A r \in Reqs :
        SecondCleanup(r) => nerfreals' = nerfreals /\ pcs' = pcs]_vars

\* C4: an offer admitted while exactly one slot remains takes that slot: the
\* registry is full afterwards, so that a second concurrent offer is rejected.
C4_LastSlotTakenOnce ==
    [][\A r \in Reqs :
        Admitted(r) /\ count = max_session - 1 => count' = max_session]_vars

\* C5: a command of any kind addressed to an id that is absent or whose
\* renderer is still None is answered {code: -1, msg: "session not found"}.
C5_UnattachedIsSessionNotFound ==
    [][CommandStep /\ ~Attached(lastcmd'.sid)
        => lastcmd'.code = -1 /\ lastcmd'.msg = "session not found"]_vars

\* C6: when the construction of the renderer fails, the registry holds no
\* entry for the session id after the failure response.
C6_BuildFailureRolledBack ==
    [][\A r \in Reqs :
        BuildFails(r) => sessionid[r] \notin DOMAIN nerfreals']_vars

\* C9: an admitted offer never registers under an id that is already in the
\* registry.
C9_FreshIdOnAdmission ==
    [][\A r \in Reqs :
        Admitted(r) => sessionid'[r] \notin DOMAIN nerfreals]_vars

\* the transport reports "closed" on r's live connection in this step
ClosedReported(r) == Live(r) /\ conn'[r] = "closed"

\* request r is answered or suspended for the first time in this step
OfferServed(r) == opc[r] = "idle" /\ opc'[r] # "idle"

\* C7: with max_session = 1 an offer made while the one session is active is
\* rejected and count stays 1; when that session's transport reports closed,
\* count becomes 0; an offer made while a slot is free is admitted under an
\* id that is then registered.  In general a cleanup that removes an entry
\* of a registry within its cap leaves a free slot.
C7_FreedSlotIsReusable ==
    [][\A r \in Reqs :
        /\ (max_session = 1 /\ count = 1 /\ OfferServed(r)
                => Rejected(r) /\ count' = 1)
        /\ (max_session = 1 /\ count = 1 /\ ClosedReported(r)
              /\ sessionid[r] \in DOMAIN nerfreals
                => count' = 0)
        /\ (count < max_session /\ OfferServed(r)
                => /\ Admitted(r)
                   /\ sessionid'[r] \in DOMAIN nerfreals'
                   /\ nerfreals'[sessionid'[r]] = None)
        /\ (CleanupStep(r) /\ sessionid[r] \in DOMAIN nerfreals
              /\ count <= max_session
                => count' = count - 1 /\ count' < max_session)]_vars

\* the end-to-end run: A answered with success, B rejected meanwhile, A
\* closed, the next offer admitted
C7_Witness ==
    /\ max_session = 1
    /\ resp[1] = "ok" /\ conn[1] = "closed" /\ hclosed[1] = "done"
    /\ resp[2] = "max"
    /\ opc[3] = "build" /\ count = 1

\* C8: an offer served while count >= max_session is answered "reach max
\* session", and a rejection changes neither the registry (keys and renderer
\* handles) nor the set of peer connections.
C8_RejectionChangesNothing ==
    [][\A r \in Reqs :
        /\ (OfferServed(r) /\ count >= max_session => Rejected(r))
        /\ (Rejected(r) => nerfreals' = nerfreals /\ pcs' = pcs)]_vars

\* an offer was rejected while a session with a renderer and a connection
\* is registered
C8_Witness ==
    \E r \in Reqs :
        /\ resp[r] = "max"
        /\ count >= max_session
        /\ pcs # {}
        /\ \E s \in DOMAIN nerfreals : nerfreals[s] # None

\* the place of a family in the preference order, 0 for a codec that is
\* left out
Rank(m) ==
    CASE m = "video/H264" -> 1
      [] m = "video/VP8" -> 2
      [] m = "video/rtx" -> 3
      [] OTHER -> 0

\* the positions of the capability list that hold a preferred codec
Preferred(codecs) == {i \in 1..Len(codecs) : Rank(codecs[i].mimeType) > 0}

\* the place in the preference list that position i of the capability list
\* goes to: after every preferred entry of an earlier family and every
\* earlier entry of its own family
Place(codecs, i) ==
    1 + Cardinality({j \in Preferred(codecs) :
            \/ Rank(codecs[j].mimeType) < Rank(codecs[i].mimeType)
            \/ Rank(codecs[j].mimeType) = Rank(codecs[i].mimeType) /\ j < i})

\* the mimeTypes of a codec list
MimeTypes(codecs) == [i \in 1..Len(codecs) |-> codecs[i].mimeType]

\* C10: the preference list holds exactly the H264, VP8 and rtx entries of
\* the capability list, duplicates included: all H264 entries in their
\* original order, then all VP8 entries, then all rtx entries; [VP8, H264,
\* rtx, H264] gives [H264, H264, VP8, rtx]; the video transceiver is given
\* the list only when it is not empty.
C10_PreferenceOrder ==
    cpc = "done" =>
        /\ Len(preferences) = Cardinality(Preferred(capabilities))
        /\ \A i \in Preferred(capabilities) :
              preferences[Place(capabilities, i)] = capabilities[i]
        /\ (MimeTypes(capabilities)
                = <<"video/VP8", "video/H264", "video/rtx", "video/H264">>
              => MimeTypes(preferences)
                = <<"video/H264", "video/H264", "video/VP8", "video/rtx">>)
        /\ (videoPrefs # <<>> => preferences # <<>> /\ videoPrefs = preferences)

\* the example list, with two distinct H264 entries, was processed and the
\* result given to the transceiver
C10_Witness ==
    /\ cpc = "done"
    /\ MimeTypes(capabilities)
          = <<"video/VP8", "video/H264", "video/rtx", "video/H264">>
    /\ capabilities[2] # capabilities[4]
    /\ videoPrefs = preferences
    /\ Len(preferences) = Len(capabilities)

\* C11: no renderer operation (flush_talk, put_msg_txt, the responder's
\* put_msg_txt, put_audio_file, set_curr_state) is invoked by a command for a
\* session whose registry entry is absent or still holds None: a command
\* that calls the renderer was served to an attached session.
C11_CallsOnlyWhenAttached ==
    [][CommandStep /\ lastcmd'.calls # <<>> => Attached(lastcmd'.sid)]_vars

\* a command was served to a session whose entry is pending, with no call
C11_Witness ==
    /\ lastcmd.op \in {"human", "interrupt_talk", "humanaudio", "set_audiotype"}
    /\ lastcmd.sid \in DOMAIN nerfreals
    /\ nerfreals[lastcmd.sid] = None
    /\ lastcmd.calls = <<>>

\* the offer request r returns in this step
OfferReturns(r) == opc[r] # "ret" /\ opc'[r] = "ret"

\* the request that the server accepts next, if the behaviour has one left
NextRequest(r) == opc[r] = "idle" /\ \A q \in Reqs : q < r => opc[q] # "idle"

\* C12: every offer request ends with exactly one response, the success
\* response ("ok") or a failure response ("max", "err"): a request has a
\* response exactly when it has returned, the response is given in the step
\* that returns and never changes afterwards; the rejection answers "max",
\* a failed build and a failed negotiation step answer "err"; and whatever
\* the earlier requests did, the next request is accepted.
C12_OneResponsePerOffer ==
    /\ [](\A r \in Reqs :
            /\ resp[r] # "none" <=> opc[r] = "ret"
            /\ NextRequest(r) => ENABLED OfferStart(r))
    /\ [][\A r \in Reqs :
            /\ OfferReturns(r) => resp[r] = "none" /\ resp'[r] # "none"
            /\ resp[r] # "none" => resp'[r] = resp[r]
            /\ OfferReturns(r) /\ opc[r] = "idle" => resp'[r] = "max"
            /\ OfferReturns(r) /\ opc[r] = "build" => resp'[r] = "err"
            /\ resp'[r] = "ok" /\ resp[r] # "ok" => opc[r] = "local"]_vars

\* a failed build was answered, a later request succeeded and one was rejected
C12_Witness ==
    \E r1, r2, r3 \in Reqs :
        /\ r1 < r2
        /\ resp[r1] = "err" /\ conn[r1] = "none"
        /\ resp[r2] = "ok"
        /\ resp[r3] = "max"

\* a failed or closed report of connection r whose handler has not finished
HandlerPending(r) == hfail[r] = "closing" \/ hclosed[r] = "pending"

\* the connection of r is not in pcs and its session id is not in nerfreals
Released(r) == r \notin pcs /\ sessionid[r] \notin DOMAIN nerfreals

\* C13: whatever position the offer of the session is at, a "failed" or
\* "closed" report of its connection triggers the cleanup: while a handler
\* of such a report is pending, a state follows where the connection is not
\* in pcs and the session's id is not in nerfreals; a "closed" report that
\* was not caused by the failed handler's own close() has done so when its
\* step ends.
C13_TerminalReportCleansUp ==
    /\ \A r \in Reqs : HandlerPending(r) ~> Released(r)
    /\ [][\A r \in Reqs : ClosedReported(r) /\ hfail[r] = "none" => Released(r)']_vars

\* the connection failed while the offer was still negotiating and the
\* failed handler has finished
C13_Witness ==
    \E r \in Reqs :
        /\ opc[r] \in {"remote", "answer", "local"}
        /\ hfail[r] = "done"
        /\ Released(r)

\* C14: after shutdown no session, whether connected, negotiating or still
\* pending, remains in nerfreals and no connection remains in pcs.
C14_ShutdownEmptiesRegistryAndPcs ==
    shut = "done" => nerfreals = EmptyDict /\ pcs = {}

\* C15: a cleanup releases the connection before it removes the session
\* from the registry: when an entry that holds a renderer leaves nerfreals,
\* the connection that was made for that renderer is closed.
C15_ConnectionReleasedBeforeEntryRemoved ==
    [][\A s \in DOMAIN nerfreals :
          s \notin DOMAIN nerfreals' /\ nerfreals[s] # None
              => conn'[nerfreals[s]] = "closed"]_vars

\* the executor thread runs the responder of job t in this step
ResponderStep(t) == chat[t].st = "queued" /\ chat'[t].st = "done"

\* C16: the work given to the executor does not invoke the renderer itself:
\* a step of the responder leaves every renderer's received texts as they
\* were (its result would be handed back to a handler on the event loop).
C16_WorkerDoesNotInvokeRenderer ==
    [][\A t \in Chats : ResponderStep(t) => rx' = rx]_vars

\* human hands job t to the executor in this step
ChatAccepted(t) == chat[t].st = "none" /\ chat'[t].st = "queued"

\* C17: a chat command on an attached session is answered "ok" in the step
\* that hands the responder to the executor, before the responder has run;
\* the responder then runs, delivers one text with put_msg_txt to the
\* renderer the session held when the command was served, and never again;
\* an echo command has delivered its text to the session's renderer when
\* its response is returned.
C17_ChatDeliveredOnceEchoAtOnce ==
    /\ \A t \in Chats : chat[t].st = "queued" ~> chat[t].st = "done"
    /\ [][\A t \in Chats :
            /\ ChatAccepted(t) =>
                  /\ lastcmd'.op = "human" /\ lastcmd'.code = 0
                  /\ Attached(lastcmd'.sid)
                  /\ chat'[t].to = nerfreals[lastcmd'.sid]
                  /\ rx'[chat'[t].to] \in {0, rx[chat'[t].to]}
            /\ ResponderStep(t) =>
                  /\ chat'[t].to = chat[t].to
                  /\ rx' = [rx EXCEPT ![chat[t].to] = @ + 1]
            /\ chat[t].st = "done" => chat'[t] = chat[t]]_vars
    /\ [][\A s \in Ids, i \in BOOLEAN :
            human(s, "echo", i) /\ Attached(s) =>
                /\ lastcmd'.code = 0
                /\ rx'[nerfreals[s]] = (IF i THEN 0 ELSE rx[nerfreals[s]]) + 1]_vars

\* the chat command was answered and then its responder delivered the text
C17_Witness ==
    \E t \in Chats :
        /\ chat[t].st = "done"
        /\ rx[chat[t].to] = 1
        /\ lastcmd.op = "human"
        /\ lastcmd.calls # <<>>
        /\ lastcmd.calls[Len(lastcmd.calls)] = "llm_response"

\* a command endpoint or the responder acts in this step
EndpointStep == lastcmd' # lastcmd \/ rx' # rx \/ chat' # chat

\* C18: entries leave nerfreals only in a cleanup step of the connection
\* handler; no step of a command endpoint (human, interrupt_talk,
\* humanaudio, set_audiotype, health), of the responder or of a rejected
\* offer changes the keys of nerfreals or the renderer any key holds.
C18_OnlyCleanupRemovesEntries ==
    [][/\ EndpointStep => nerfreals' = nerfreals
       /\ \A r \in Reqs : Rejected(r) => nerfreals' = nerfreals
       /\ \A s \in DOMAIN nerfreals :
             s \notin DOMAIN nerfreals' =>
                 \E r \in Reqs : CleanupStep(r) /\ sessionid[r] = s]_vars

\* a command has called the renderer of a session that is still attached
C18_Witness ==
    /\ lastcmd.op \in {"human", "interrupt_talk", "humanaudio", "set_audiotype"}
    /\ lastcmd.calls # <<>>
    /\ Attached(lastcmd.sid)

\* C20: the offer returns the success response only from the await of
\* setLocalDescription, which follows createAnswer and setRemoteDescription,
\* and only for a connection that got its audio and video tracks; a
\* connection whose tracks were not added is never answered and never
\* reports "connected".
C20_AnsweredOnlyWithTracks ==
    /\ [](\A r \in Reqs :
            /\ resp[r] = "ok" \/ conn[r] = "connected" => tracks[r]
            /\ opc[r] \in {"remote", "answer", "local"} => tracks[r])
    /\ [][\A r \in Reqs :
            /\ resp'[r] = "ok" /\ resp[r] # "ok" => opc[r] = "local" /\ tracks[r]
            /\ opc'[r] = "local" /\ opc[r] # "local" => opc[r] = "answer"
            /\ opc'[r] = "answer" /\ opc[r] # "answer" => opc[r] = "remote"]_vars

\* one offer failed at its tracks and has a connection that never connects,
\* another was answered and is connected
C20_Witness ==
    \E r1, r2 \in Reqs :
        /\ ~tracks[r1] /\ conn[r1] = "new" /\ resp[r1] = "err"
        /\ tracks[r2] /\ conn[r2] = "connected" /\ resp[r2] = "ok"

\* the codec block of offer r ends in this step without preferences set
CodecFails(r) ==
    /\ opc[r] = "build" /\ opc'[r] # "build"
    /\ tracks'[r]
    /\ cpc' \in {"query_raised", "set_raised", "empty", "no_preference"}

\* C19: when the capability query or setCodecPreferences raises, or the
\* capability list is empty or has no preferred codec, the offer is not
\* aborted: it goes on to await setRemoteDescription with no response
\* given, its entry holds its renderer and its connection is in pcs.
C19_CodecFailureNotFatal ==
    [][\A r \in Reqs :
          CodecFails(r) =>
              /\ opc'[r] = "remote"
              /\ resp'[r] = "none"
              /\ sessionid[r] \in DOMAIN nerfreals'
              /\ nerfreals'[sessionid[r]] = r
              /\ r \in pcs']_vars

\* setCodecPreferences raised and the offer was answered all the same
C19_Witness ==
    \E r \in Reqs : cpc = "set_raised" /\ resp[r] = "ok" /\ videoPrefs = <<>>

\* C21: an interrupt calls flush_talk on the session's renderer; a human
\* command with interrupt and echo text calls flush_talk before put_msg_txt,
\* so the renderer then holds that one text; an interrupt on a renderer that
\* holds nothing leaves the renderer and nerfreals as they were and is
\* answered "ok".
C21_FlushBeforeTextAndSafeWhenEmpty ==
    [][\A s \in Ids :
          Attached(s) =>
              /\ human(s, "echo", TRUE) =>
                    /\ lastcmd'.calls = <<"flush_talk", "put_msg_txt">>
                    /\ rx'[nerfreals[s]] = 1
              /\ \A ty \in Types :
                    human(s, ty, TRUE) => lastcmd'.calls[1] = "flush_talk"
              /\ interrupt_talk(s) => lastcmd'.calls = <<"flush_talk">>
              /\ (interrupt_talk(s) \/ human(s, "other", TRUE))
                     /\ rx[nerfreals[s]] = 0
                    => rx' = rx /\ nerfreals' = nerfreals /\ lastcmd'.code = 0]_vars

\* an interrupt with echo text was served to a renderer, which holds the text
C21_Witness ==
    /\ lastcmd.op = "human"
    /\ lastcmd.calls = <<"flush_talk", "put_msg_txt">>
    /\ Attached(lastcmd.sid)
    /\ rx[nerfreals[lastcmd.sid]] = 1

\* C22: each renderer is constructed with the session id of its own
\* session: the opt.sessionid its constructor finds is the sessionid that
\* was passed to its build_nerfreal call.
C22_RendererBuiltWithOwnId ==
    \A r \in Reqs : bpc[r] = "done" => rsid[r] = sessionid[r]

\* C23: a terminal report of the connection of offer r removes only the
\* entry of that offer's session: the entry a cleanup of r deletes holds the
\* renderer that offer r stored, not an entry another offer registered
\* under the same id.
C23_CleanupRemovesOwnEntryOnly ==
    [][\A r \in Reqs :
          /\ CleanupStep(r)
          /\ sessionid[r] \in DOMAIN nerfreals
          /\ sessionid[r] \notin DOMAIN nerfreals'
          => nerfreals[sessionid[r]] = r]_vars

\* C24: when an offer returns the success response with its sessionid,
\* nerfreals holds an entry for that id with a renderer in it, also when a
\* failed or closed report was handled during the awaits of the handshake.
C24_SuccessMeansRegistered ==
    [][\A r \in Reqs :
          resp'[r] = "ok" /\ resp[r] # "ok"
              => /\ sessionid[r] \in DOMAIN nerfreals'
                 /\ nerfreals'[sessionid[r]] # None]_vars

\* C25: an offer that returns the failure response after its peer
\* connection was created (the track setup or one of the three handshake
\* calls raised) holds no slot afterwards: its session id is not in
\* nerfreals and its connection is not in pcs.
C25_FailedOfferHoldsNoSlot ==
    [][\A r \in Reqs :
          OfferReturns(r) /\ resp'[r] = "err" /\ conn'[r] # "none"
              => sessionid[r] \notin DOMAIN nerfreals' /\ r \notin pcs']_vars

\* C26: the responder never delivers its text to a renderer whose session
\* has been removed from nerfreals by the time it finishes: when a job is
\* done, some entry of nerfreals still holds the renderer it delivers to.
C26_NoDeliveryAfterRemoval ==
    [][\A t \in Chats :
          ResponderStep(t) /\ rx'[chat[t].to] # rx[chat[t].to]
              => \E s \in DOMAIN nerfreals : nerfreals[s] = chat[t].to]_vars

TypeOK ==
    /\ max_session \in 0..MaxCap
    /\ DOMAIN nerfreals \subseteq Ids
    /\ \A s \in DOMAIN nerfreals : nerfreals[s] \in {None} \cup Reqs
    /\ pcs \subseteq Reqs
    /\ rx \in [Reqs -> 0..MaxQueue]
    /\ chat \in [Chats -> [st : {"none", "queued", "done"}, to : {0} \cup Reqs]]
    /\ shut \in {"no", "closing", "done"}
    /\ closing \subseteq Reqs
    /\ tracks \in [Reqs -> BOOLEAN]
    /\ opt_sessionid \in {0} \cup Ids
    /\ bpc \in [Reqs -> {"start", "written", "done"}]
    /\ rsid \in [Reqs -> {0} \cup Ids]
====
